---- MODULE Spec2Model ----
(***************************************************************************)
(* A model of lambda_decorators.py: six decorators around an AWS Lambda    *)
(* handler (event, context) -> response.                                   *)
(*                                                                         *)
(* Python values are records [t |-> type name, v |-> payload]:             *)
(*   none  <<>>            int   an integer        str   a sequence of     *)
(*   list  a sequence of values                          characters        *)
(*   dict  a sequence of <<key, value>> pairs in insertion order           *)
(*   set   <<>> (a set object: the value json.dumps cannot serialize)      *)
(* A text is a sequence of one-character strings.  Response and event      *)
(* mappings, whose keys the decorators address by name, are functions      *)
(* from key names to values.                                               *)
(***************************************************************************)
EXTENDS Integers, Sequences, FiniteSets, TLC

(* ---------------------------- bounds ----------------------------------- *)
MaxLen == 4
MaxInvocations == 3
MaxAwaits == 2

(* ---------------------------- Python values ---------------------------- *)
None == [t |-> "none", v |-> <<>>]
PyInt(n) == [t |-> "int", v |-> n]
PyStr(s) == [t |-> "str", v |-> s]
PyList(xs) == [t |-> "list", v |-> xs]
PyDict(kvs) == [t |-> "dict", v |-> kvs]
PySet == [t |-> "set", v |-> <<>>]

isinstance_str(x) == x.t = "str"

(* The characters of the request-body texts the model enumerates.  The     *)
(* JSON literals null/true/false/NaN/Infinity, fractions, exponents and    *)
(* the escapes other than \" and \\ need characters outside this set.      *)
Chars == {"\"", "\\", "a", "0", "1", "-", "[", "]", "{", "}", ",", ":", " "}

Digits == {"0", "1", "2", "3", "4", "5", "6", "7", "8", "9"}

DigitVal(c) ==
  CASE c = "0" -> 0 [] c = "1" -> 1 [] c = "2" -> 2 [] c = "3" -> 3
    [] c = "4" -> 4 [] c = "5" -> 5 [] c = "6" -> 6 [] c = "7" -> 7
    [] c = "8" -> 8 [] c = "9" -> 9

DigitChar(d) == <<"0", "1", "2", "3", "4", "5", "6", "7", "8", "9">>[d + 1]

(* ---------------------------- json.dumps ------------------------------- *)
RECURSIVE NatText(_)
NatText(n) == IF n < 10 THEN <<DigitChar(n)>>
              ELSE NatText(n \div 10) \o <<DigitChar(n % 10)>>

IntText(n) == IF n < 0 THEN <<"-">> \o NatText(0 - n) ELSE NatText(n)

(* py_encode_basestring: the quoted text with " and \ escaped *)
RECURSIVE EscapeText(_)
EscapeText(s) ==
  IF s = <<>> THEN <<>>
  ELSE (IF Head(s) \in {"\"", "\\"} THEN <<"\\", Head(s)>> ELSE <<Head(s)>>)
       \o EscapeText(Tail(s))

QuoteText(s) == <<"\"">> \o EscapeText(s) \o <<"\"">>

(* json.dumps raises TypeError exactly on a value that holds a set object *)
RECURSIVE Serializable(_)
Serializable(x) ==
  CASE x.t = "list" -> \A k \in 1..Len(x.v) : Serializable(x.v[k])
    [] x.t = "dict" -> \A k \in 1..Len(x.v) : Serializable(x.v[k][2])
    [] x.t = "set" -> FALSE
    [] OTHER -> TRUE

RECURSIVE json_dumps(_)
RECURSIVE DumpItems(_)
RECURSIVE DumpPairs(_)
(* the items of a list joined with the default item separator ", " *)
DumpItems(xs) ==
  IF xs = <<>> THEN <<>>
  ELSE json_dumps(Head(xs))
       \o (IF Tail(xs) = <<>> THEN <<>> ELSE <<",", " ">> \o DumpItems(Tail(xs)))

(* the pairs of a dict as "key": value, joined with ", " *)
DumpPairs(kvs) ==
  IF kvs = <<>> THEN <<>>
  ELSE QuoteText(Head(kvs)[1]) \o <<":", " ">> \o json_dumps(Head(kvs)[2])
       \o (IF Tail(kvs) = <<>> THEN <<>> ELSE <<",", " ">> \o DumpPairs(Tail(kvs)))

(* json.dumps(x) for a serializable x *)
json_dumps(x) ==
  CASE x.t = "none" -> <<"n", "u", "l", "l">>
    [] x.t = "int" -> IntText(x.v)
    [] x.t = "str" -> QuoteText(x.v)
    [] x.t = "list" -> <<"[">> \o DumpItems(x.v) \o <<"]">>
    [] x.t = "dict" -> <<"{">> \o DumpPairs(x.v) \o <<"}">>

(* ---------------------------- json.loads ------------------------------- *)
(* A scan result: ok, the value and the index after it; or a failure.      *)
Fail == [ok |-> FALSE, val |-> None, end |-> 0]
Ok(x, j) == [ok |-> TRUE, val |-> x, end |-> j]

RECURSIVE SkipWs(_, _)
SkipWs(s, i) == IF i <= Len(s) /\ s[i] = " " THEN SkipWs(s, i + 1) ELSE i

(* scanstring: i is the index after the opening quote *)
RECURSIVE scanstring(_, _, _)
scanstring(s, i, acc) ==
  IF i > Len(s) THEN Fail
  ELSE IF s[i] = "\"" THEN Ok(PyStr(acc), i + 1)
  ELSE IF s[i] = "\\"
       THEN IF i + 1 <= Len(s) /\ s[i + 1] \in {"\"", "\\"}
            THEN scanstring(s, i + 2, Append(acc, s[i + 1]))
            ELSE Fail
  ELSE scanstring(s, i + 1, Append(acc, s[i]))

(* the run of digits from index i on, accumulated into n *)
RECURSIVE ScanDigits(_, _, _)
ScanDigits(s, i, n) ==
  IF i <= Len(s) /\ s[i] \in Digits
  THEN ScanDigits(s, i + 1, 10 * n + DigitVal(s[i]))
  ELSE [n |-> n, end |-> i]

(* NUMBER_RE, integer part: an optional minus sign, then either a single  *)
(* 0 or a nonzero digit followed by digits                                 *)
match_number(s, i) ==
  LET neg == i <= Len(s) /\ s[i] = "-"
      j == IF neg THEN i + 1 ELSE i
  IN  IF j > Len(s) \/ s[j] \notin Digits THEN Fail
      ELSE IF s[j] = "0" THEN Ok(PyInt(0), j + 1)
      ELSE LET d == ScanDigits(s, j, 0)
           IN  Ok(PyInt(IF neg THEN 0 - d.n ELSE d.n), d.end)

(* d[k] = x on an insertion-ordered dict: a repeated key keeps its place   *)
(* and takes the new value                                                 *)
RECURSIVE dict_setitem(_, _, _)
dict_setitem(kvs, k, x) ==
  IF kvs = <<>> THEN << <<k, x>> >>
  ELSE IF Head(kvs)[1] = k THEN << <<k, x>> >> \o Tail(kvs)
  ELSE <<Head(kvs)>> \o dict_setitem(Tail(kvs), k, x)

RECURSIVE scan_once(_, _)
RECURSIVE JSONArray(_, _, _)
RECURSIVE JSONObject(_, _, _)

(* JSONArray: i is the index of the next value, acc the values so far *)
JSONArray(s, i, acc) ==
  LET r == scan_once(s, i)
  IN  IF ~r.ok THEN Fail
      ELSE LET j == SkipWs(s, r.end)
               xs == Append(acc, r.val)
           IN  IF j > Len(s) THEN Fail
               ELSE IF s[j] = "]" THEN Ok(PyList(xs), j + 1)
               ELSE IF s[j] = "," THEN JSONArray(s, SkipWs(s, j + 1), xs)
               ELSE Fail

(* JSONObject: i is the index where the next key's opening quote must be *)
JSONObject(s, i, acc) ==
  IF i > Len(s) \/ s[i] # "\"" THEN Fail
  ELSE LET k == scanstring(s, i + 1, <<>>)
       IN  IF ~k.ok THEN Fail
           ELSE LET c == SkipWs(s, k.end)
                IN  IF c > Len(s) \/ s[c] # ":" THEN Fail
                    ELSE LET r == scan_once(s, SkipWs(s, c + 1))
                         IN  IF ~r.ok THEN Fail
                             ELSE LET j == SkipWs(s, r.end)
                                      kvs == dict_setitem(acc, k.val.v, r.val)
                                  IN  IF j > Len(s) THEN Fail
                                      ELSE IF s[j] = "}" THEN Ok(PyDict(kvs), j + 1)
                                      ELSE IF s[j] = ","
                                           THEN JSONObject(s, SkipWs(s, j + 1), kvs)
                                      ELSE Fail

(* scan_once: the value that starts at index i *)
scan_once(s, i) ==
  IF i > Len(s) THEN Fail
  ELSE IF s[i] = "\"" THEN scanstring(s, i + 1, <<>>)
  ELSE IF s[i] = "{"
       THEN LET j == SkipWs(s, i + 1)
            IN  IF j <= Len(s) /\ s[j] = "}" THEN Ok(PyDict(<<>>), j + 1)
                ELSE JSONObject(s, j, <<>>)
  ELSE IF s[i] = "["
       THEN LET j == SkipWs(s, i + 1)
            IN  IF j <= Len(s) /\ s[j] = "]" THEN Ok(PyList(<<>>), j + 1)
                ELSE JSONArray(s, j, <<>>)
  ELSE match_number(s, i)

(* json.loads(s): one value between optional whitespace, or a             *)
(* JSONDecodeError (ok = FALSE) *)
json_loads(s) ==
  LET r == scan_once(s, SkipWs(s, 1))
  IN  IF ~r.ok THEN Fail
      ELSE IF SkipWs(s, r.end) # Len(s) + 1 THEN Fail
      ELSE r

(* ---------------------------- outcomes of a call ----------------------- *)
(* What a call does: it returns val (exc = "none") or raises exc.          *)
Return(x) == [exc |-> "none", val |-> x]
Raise(e) == [exc |-> e, val |-> None]

(* str(exc): the message of an exception, kept as one piece of text *)
ExcText(msg) == PyStr(<<msg>>)

(* ---------------------------- cors ------------------------------------- *)
(* The argument of cors: an origin string, or (decorating directly) the    *)
(* handler function.                                                       *)
OriginArg(o) == [is_str |-> TRUE, s |-> o]
HandlerArg == [is_str |-> FALSE, s |-> "hello"]

(* cors, lines 92-105: a non-string argument is decorated with cors('*') *)
cors_origin(handler_or_origin) ==
  IF handler_or_origin.is_str THEN handler_or_origin.s ELSE "*"

(* response.setdefault('headers', {}) *)
setdefault_headers(response) ==
  IF "headers" \in DOMAIN response THEN response
  ELSE response @@ [headers |-> <<>>]

(* a variant that keeps an entry the handler already set *)
set_allow_origin_keep(headers, origin) ==
  [k \in DOMAIN headers \cup {"Access-Control-Allow-Origin"} |->
     IF k \in DOMAIN headers THEN headers[k] ELSE origin]

(* headers['Access-Control-Allow-Origin'] = origin *)
set_allow_origin(headers, origin) ==
  [k \in DOMAIN headers \cup {"Access-Control-Allow-Origin"} |->
     IF k = "Access-Control-Allow-Origin" THEN origin ELSE headers[k]]

(* cors.wrapper, lines 95-99; r is what handler(event, context) did *)
cors_wrapper(origin, r) ==
  IF r.exc # "none" THEN r
  ELSE LET response == setdefault_headers(r.val)
       IN  Return([response EXCEPT
                     !.headers = set_allow_origin(response.headers, origin)])

(* ---------------------------- json_http_resp --------------------------- *)
(* json_http_resp.wrapper, lines 157-163.  When json.dumps raises, the     *)
(* handler of the exception builds {'statusCode': 500, body: str(exc)}:    *)
(* its second key is the local variable body, which the failed assignment  *)
(* of line 160 left unbound, so the read raises UnboundLocalError.         *)
json_http_resp_wrapper(r) ==
  IF r.exc # "none" THEN r
  ELSE IF Serializable(r.val)
       THEN Return([statusCode |-> 200, body |-> PyStr(json_dumps(r.val))])
       ELSE Raise("UnboundLocalError")

(* ---------------------------- dump_json_body --------------------------- *)
(* dump_json_body.wrapper, lines 127-134.  json.dumps['body'] subscripts   *)
(* the function json.dumps: a TypeError, caught by the except clause.      *)
dump_json_body_wrapper(r) ==
  IF r.exc # "none" THEN r
  ELSE IF "body" \in DOMAIN r.val
       THEN Return([statusCode |-> 500,
                    body |-> ExcText("'function' object is not subscriptable")])
       ELSE r

(* dump_json_body, lines 108-134: the function body ends after the inner   *)
(* def, without a return statement, so the decorator returns None.         *)
dump_json_body_returns_wrapper == FALSE

(* calling the name that @dump_json_body bound *)
dump_json_body_call(r) ==
  IF dump_json_body_returns_wrapper
  THEN [hcalls |-> 1, result |-> dump_json_body_wrapper(r)]
  ELSE [hcalls |-> 0, result |-> Raise("TypeError")]

(* ---------------------------- load_json_body --------------------------- *)
BadRequest ==
  [statusCode |-> 400,
   body |-> PyStr(<<"B", "A", "D", " ", "R", "E", "Q", "U", "E", "S", "T">>)]

(* event.get('body') *)
event_get_body(ev) == IF "body" \in DOMAIN ev THEN ev.body ELSE None

(* a variant whose except clause falls through to the handler *)
load_json_body_wrapper_fallthrough(ev, r) ==
  IF isinstance_str(event_get_body(ev)) /\ json_loads(ev.body.v).ok
  THEN [event |-> [ev EXCEPT !.body = json_loads(ev.body.v).val],
        hcalls |-> 1, result |-> r]
  ELSE [event |-> ev, hcalls |-> 1, result |-> r]

(* a variant that parses the body only to validate it *)
load_json_body_wrapper_validate_only(ev, r) ==
  IF isinstance_str(event_get_body(ev)) /\ ~json_loads(ev.body.v).ok
  THEN [event |-> ev, hcalls |-> 0, result |-> Return(BadRequest)]
  ELSE [event |-> ev, hcalls |-> 1, result |-> r]

(* load_json_body.wrapper, lines 186-192: the event as the wrapper leaves  *)
(* it, whether the handler was called, and the wrapper's outcome           *)
load_json_body_wrapper(ev, r) ==
  IF isinstance_str(event_get_body(ev))
  THEN LET p == json_loads(ev.body.v)
       IN  IF p.ok
           THEN [event |-> [ev EXCEPT !.body = p.val], hcalls |-> 1, result |-> r]
           ELSE [event |-> ev, hcalls |-> 0, result |-> Return(BadRequest)]
  ELSE [event |-> ev, hcalls |-> 1, result |-> r]

(* ---------------------------- async_handler ---------------------------- *)
(* A coroutine object: the number of awaits left before it finishes, and   *)
(* how it finishes.                                                        *)
RECURSIVE run_until_complete(_)
run_until_complete(coro) ==
  IF coro.awaits = 0 THEN coro.final
  ELSE run_until_complete([coro EXCEPT !.awaits = coro.awaits - 1])

(* async_handler.wrapper, lines 64-66: handler() is called without         *)
(* arguments; a handler that declares parameters raises TypeError there,   *)
(* before any coroutine exists.                                            *)
async_handler_wrapper(nparams, coro) ==
  IF nparams # 0 THEN [hcalls |-> 0, result |-> Raise("TypeError")]
  ELSE [hcalls |-> 1, result |-> run_until_complete(coro)]

(* ---------------------------- no_retry_on_failure ---------------------- *)
(* a variant that never records the id *)
no_retry_wrapper_no_add(seen, id, r) ==
  IF id \in seen
  THEN [seen |-> seen, hcalls |-> 0, result |-> Raise("RuntimeError")]
  ELSE [seen |-> seen, hcalls |-> 1, result |-> r]

(* a variant that records the id only after the handler has returned *)
no_retry_wrapper_add_after(seen, id, r) ==
  IF id \in seen
  THEN [seen |-> seen, hcalls |-> 0, result |-> Raise("RuntimeError")]
  ELSE [seen |-> IF r.exc = "none" THEN seen \cup {id} ELSE seen,
        hcalls |-> 1, result |-> r]

(* no_retry_on_failure.wrapper, lines 208-213, run without interruption:   *)
(* seen is seen_request_ids on entry, id is context.aws_request_id, r is   *)
(* what handler(event, context) does if it is called.                      *)
no_retry_wrapper(seen, id, r) ==
  IF id \in seen
  THEN [seen |-> seen, hcalls |-> 0, result |-> Raise("RuntimeError")]
  ELSE [seen |-> seen \cup {id}, hcalls |-> 1, result |-> r]

(* ---------------------------- inputs ----------------------------------- *)
Texts(n) == UNION {[1..k -> Chars] : k \in 0..n}

(* longer request bodies: objects with keys, nesting, a repeated key, a    *)
(* trailing comma, a missing comma                                         *)
SampleTexts ==
  { <<"{", "\"", "a", "\"", ":", " ", "1", "}">>,
    <<"{", "\"", "a", "\"", ":", "1", ",", "\"", "a", "\"", ":", "0", "}">>,
    <<"{", "\"", "a", "\"", " ", ":", "[", "1", ",", " ", "\"", "a", "\"", "]", "}">>,
    <<"{", "\"", "a", "\"", ":", "1", ",", "}">>,
    <<"{", "\"", "a", "\"", ":", "1", " ", "\"", "0", "\"", ":", "1", "}">>,
    <<"\"", "a", "\\", "\"", "a", "\"">>,
    <<"[", "1", ",", " ", "-", "1", "0", "]">> }

Hello == PyDict(<< <<<<"a">>, PyStr(<<"a", "\"">>)>>, <<<<"0">>, PyList(<<PyInt(-10), None>>)>> >>)

(* return values of a handler: serializable or not *)
Values ==
  { None, PyInt(0), PyInt(-10), PyStr(<<>>), PyStr(<<"a", "\\">>),
    PyList(<<>>), PyList(<<PyInt(1), PyStr(<<"a">>)>>), PyDict(<<>>), Hello,
    PySet, PyList(<<PyInt(1), PySet>>), PyDict(<< <<<<"a">>, PySet>> >>) }

HandlerError == Raise("HandlerError")

Origins == {"*", "https://example.com", ""}
CorsArgs == {OriginArg(o) : o \in Origins} \cup {HandlerArg}

HeaderNames == {"Access-Control-Allow-Origin", "Content-Type"}
HeaderValues == {"https://example.org", "text/plain"}
HeaderMaps == UNION {[S -> HeaderValues] : S \in SUBSET HeaderNames}

(* response mappings of an HTTP handler, with and without 'headers' *)
Bodies == {<<>>, [body |-> PyStr(<<"a">>)], [statusCode |-> 200, body |-> Hello]}
Responses == Bodies \cup {b @@ [headers |-> h] : b \in Bodies, h \in HeaderMaps}

(* response mappings whose body is any value *)
Envelopes ==
  {[statusCode |-> 200]} \cup {[statusCode |-> 200, body |-> x] : x \in Values}

(* events: no body, a text body, a body that is already structured *)
Path == PyStr(<<"a">>)
Events ==
  {[path |-> Path]}
  \cup {[path |-> Path, body |-> PyStr(s)] : s \in Texts(MaxLen) \cup SampleTexts}
  \cup {[path |-> Path, body |-> x] : x \in {None, PyInt(1), PyList(<<>>), Hello}}

Coroutines ==
  {[awaits |-> n, final |-> f] :
     n \in 0..MaxAwaits, f \in {Return(x) : x \in {None, Hello}} \cup {HandlerError}}

Ids == {"id1", "id2"}
Decorated == {"job_a", "job_b"}
Threads == {"t1", "t2", "t3"}
JobOutcomes == {Return(PyInt(0)), Return(PyInt(1)), HandlerError}

(* ---------------------------- state ------------------------------------ *)
\* call: the latest invocation of a decorated HTTP handler
\* seen_request_ids: per no_retry_on_failure decoration, its set of ids
\* calls: per decoration and id, the calls of the wrapped handler
\* log: the sequential invocations of guarded handlers so far
\* threads: the concurrent invocations (position, decoration, id)
VARIABLES call, seen_request_ids, calls, log, threads

vars == <<call, seen_request_ids, calls, log, threads>>

NoCall ==
  [op |-> "none", arg |-> HandlerArg, nparams |-> 0, event0 |-> <<>>,
   event |-> <<>>, hout |-> Return(None), hcalls |-> 0, result |-> Return(None)]

Idle == [pc |-> "idle", f |-> "job_a", id |-> "id1"]

Init ==
  /\ call = NoCall
  /\ seen_request_ids = [f \in Decorated |-> {}]
  /\ calls = [f \in Decorated |-> [i \in Ids |-> 0]]
  /\ log = <<>>
  /\ threads = [t \in Threads |-> Idle]

(* ---------------------------- HTTP decorators -------------------------- *)
(* These decorators keep nothing between invocations, so a behaviour       *)
(* follows one invocation from the host's call to its outcome.             *)
Invoke_cors ==
  /\ call.op = "none"
  /\ \E a \in CorsArgs, r \in {Return(x) : x \in Responses} \cup {HandlerError} :
       call' = [NoCall EXCEPT !.op = "cors", !.arg = a, !.hout = r, !.hcalls = 1,
                              !.result = cors_wrapper(cors_origin(a), r)]
  /\ UNCHANGED <<seen_request_ids, calls, log, threads>>

Invoke_json_http_resp ==
  /\ call.op = "none"
  /\ \E r \in {Return(x) : x \in Values} \cup {HandlerError} :
       call' = [NoCall EXCEPT !.op = "json_http_resp", !.hout = r, !.hcalls = 1,
                              !.result = json_http_resp_wrapper(r)]
  /\ UNCHANGED <<seen_request_ids, calls, log, threads>>

(* the stack of the quick example: @cors over @json_http_resp *)
Invoke_cors_json_http_resp ==
  /\ call.op = "none"
  /\ \E a \in CorsArgs, r \in {Return(x) : x \in Values} \cup {HandlerError} :
       call' = [NoCall EXCEPT !.op = "cors_json_http_resp", !.arg = a,
                              !.hout = r, !.hcalls = 1,
                              !.result = cors_wrapper(cors_origin(a),
                                                      json_http_resp_wrapper(r))]
  /\ UNCHANGED <<seen_request_ids, calls, log, threads>>

Invoke_dump_json_body ==
  /\ call.op = "none"
  /\ \E r \in {Return(x) : x \in Envelopes} \cup {HandlerError} :
       LET w == dump_json_body_call(r)
       IN  call' = [NoCall EXCEPT !.op = "dump_json_body", !.hout = r,
                                  !.hcalls = w.hcalls, !.result = w.result]
  /\ UNCHANGED <<seen_request_ids, calls, log, threads>>

Invoke_load_json_body ==
  /\ call.op = "none"
  /\ \E ev \in Events, r \in {Return(Hello), HandlerError} :
       LET w == load_json_body_wrapper(ev, r)
       IN  call' = [NoCall EXCEPT !.op = "load_json_body", !.event0 = ev,
                                  !.event = w.event, !.hout = r,
                                  !.hcalls = w.hcalls, !.result = w.result]
  /\ UNCHANGED <<seen_request_ids, calls, log, threads>>

Invoke_async_handler ==
  /\ call.op = "none"
  /\ \E n \in {0, 2}, coro \in Coroutines :
       LET w == async_handler_wrapper(n, coro)
       IN  call' = [NoCall EXCEPT !.op = "async_handler", !.nparams = n,
                                  !.hout = coro.final,
                                  !.hcalls = w.hcalls, !.result = w.result]
  /\ UNCHANGED <<seen_request_ids, calls, log, threads>>

NextHttp ==
  \/ Invoke_cors
  \/ Invoke_json_http_resp
  \/ Invoke_cors_json_http_resp
  \/ Invoke_dump_json_body
  \/ Invoke_load_json_body
  \/ Invoke_async_handler

SpecHttp == Init /\ [][NextHttp]_vars

(* ---------------------------- no_retry_on_failure, sequential ---------- *)
Invoke_no_retry(f, id, r) ==
  /\ Len(log) < MaxInvocations
  /\ LET w == no_retry_wrapper(seen_request_ids[f], id, r)
     IN  /\ seen_request_ids' = [seen_request_ids EXCEPT ![f] = w.seen]
         /\ calls' = [calls EXCEPT ![f][id] = @ + w.hcalls]
         /\ log' = Append(log, [f |-> f, id |-> id, hout |-> r,
                                hcalls |-> w.hcalls, result |-> w.result])
  /\ UNCHANGED <<call, threads>>

Next ==
  \E f \in Decorated, id \in Ids, r \in JobOutcomes : Invoke_no_retry(f, id, r)

Spec == Init /\ [][Next]_vars

(* ---------------------------- no_retry_on_failure, concurrent ---------- *)
(* The host starts an invocation on an idle thread. *)
Enter(t, f, id) ==
  /\ threads[t].pc = "idle"
  /\ threads' = [threads EXCEPT ![t] = [pc |-> "check", f |-> f, id |-> id]]
  /\ UNCHANGED <<call, seen_request_ids, calls, log>>

(* lines 209-211: the membership test, and the raise *)
Check(t) ==
  /\ threads[t].pc = "check"
  /\ threads' = [threads EXCEPT ![t].pc =
       IF threads[t].id \in seen_request_ids[threads[t].f]
       THEN "raised" ELSE "add"]
  /\ UNCHANGED <<call, seen_request_ids, calls, log>>

(* line 212: seen_request_ids.add *)
Add(t) ==
  /\ threads[t].pc = "add"
  /\ seen_request_ids' =
       [seen_request_ids EXCEPT ![threads[t].f] = @ \cup {threads[t].id}]
  /\ threads' = [threads EXCEPT ![t].pc = "delegate"]
  /\ UNCHANGED <<call, calls, log>>

(* line 213: the call of the wrapped handler *)
Delegate(t) ==
  /\ threads[t].pc = "delegate"
  /\ calls' = [calls EXCEPT ![threads[t].f][threads[t].id] = @ + 1]
  /\ threads' = [threads EXCEPT ![t].pc = "done"]
  /\ UNCHANGED <<call, seen_request_ids, log>>

NextConc ==
  \/ \E t \in Threads, f \in Decorated, id \in Ids : Enter(t, f, id)
  \/ \E t \in Threads : Check(t)
  \/ \E t \in Threads : Add(t)
  \/ \E t \in Threads : Delegate(t)

SpecConc == Init /\ [][NextConc]_vars

(* ======================================================================= *)
(* Properties                                                              *)
(* ======================================================================= *)
ACAO == "Access-Control-Allow-Origin"

(* the invocations before the k-th that carry the same decoration and id *)
Earlier(k) == {j \in 1..(k - 1) : log[j].f = log[k].f /\ log[j].id = log[k].id}

(* C1: under no_retry_on_failure, the first invocation that carries a      *)
(* request id delegates to the wrapped handler and ends as the handler     *)
(* ends (returning its result); every later invocation with that id raises *)
(* RuntimeError without a call of the handler, so the handler's call count *)
(* for the id stays at 1.                                                  *)
C1_FirstDelegatesRepeatRaises ==
  \A k \in 1..Len(log) :
    /\ calls[log[k].f][log[k].id] = 1
    /\ IF Earlier(k) = {}
       THEN log[k].hcalls = 1 /\ log[k].result = log[k].hout
       ELSE log[k].hcalls = 0 /\ log[k].result = Raise("RuntimeError")

C1_Witness ==
  \E k \in 1..Len(log) : \E j \in Earlier(k) :
    /\ log[j].hcalls = 1 /\ log[j].result = Return(PyInt(1))
    /\ log[k].result.exc = "RuntimeError"
    /\ calls[log[k].f][log[k].id] = 1

(* C2: for a handler that returns a mapping and an origin string O, the    *)
(* response of cors(O)(H) has headers['Access-Control-Allow-Origin'] = O,  *)
(* whether or not the handler's response had 'headers'; the other header   *)
(* entries and the other keys of the response are kept.                    *)
C2_CorsSetsOrigin ==
  (call.op = "cors" /\ call.arg.is_str /\ call.hout.exc = "none") =>
    LET old == call.hout.val
        oldh == IF "headers" \in DOMAIN old THEN old.headers ELSE <<>>
    IN  /\ call.result.exc = "none"
        /\ DOMAIN call.result.val = DOMAIN old \cup {"headers"}
        /\ \A k \in DOMAIN old \ {"headers"} : call.result.val[k] = old[k]
        /\ DOMAIN call.result.val.headers = DOMAIN oldh \cup {ACAO}
        /\ call.result.val.headers[ACAO] = call.arg.s
        /\ \A k \in DOMAIN oldh \ {ACAO} : call.result.val.headers[k] = oldh[k]

C2_Witness ==
  /\ call.op = "cors" /\ call.arg = OriginArg("https://example.com")
  /\ call.hout.exc = "none"
  /\ "headers" \in DOMAIN call.hout.val
  /\ DOMAIN call.hout.val.headers = HeaderNames
  /\ call.hout.val.headers[ACAO] = "https://example.org"
  /\ call.result.val.headers[ACAO] = "https://example.com"

(* C3: when event['body'] is a string that does not parse as JSON,         *)
(* load_json_body(H) returns exactly {'statusCode': 400, 'body':           *)
(* 'BAD REQUEST'} and H is not invoked.                                    *)
C3_BadBodyIs400 ==
  (/\ call.op = "load_json_body"
   /\ isinstance_str(event_get_body(call.event0))
   /\ ~json_loads(call.event0.body.v).ok) =>
    /\ call.result = Return(BadRequest)
    /\ call.hcalls = 0

C3_Witness ==
  /\ call.op = "load_json_body"
  /\ event_get_body(call.event0) = PyStr(<<"[", "1", ",">>)
  /\ call.hout = Return(Hello)
  /\ call.result.val.statusCode = 400
  /\ call.hcalls = 0

(* C4: when the wrapped handler returns a value that json.dumps cannot     *)
(* serialize, json_http_resp(H) returns (does not raise) a response with   *)
(* statusCode 500 and a non-empty string body.                             *)
C4_UnserializableIs500 ==
  (/\ call.op = "json_http_resp"
   /\ call.hout.exc = "none"
   /\ ~Serializable(call.hout.val)) =>
    /\ call.result.exc = "none"
    /\ call.result.val.statusCode = 500
    /\ isinstance_str(call.result.val.body)
    /\ call.result.val.body.v # <<>>

(* C5: when the response of the wrapped handler has a serializable 'body', *)
(* dump_json_body(H) is callable and returns that response with 'body'     *)
(* replaced by its serialized text and every other key unchanged.          *)
C5_DumpsBody ==
  (/\ call.op = "dump_json_body"
   /\ call.hout.exc = "none"
   /\ "body" \in DOMAIN call.hout.val
   /\ Serializable(call.hout.val.body)) =>
    /\ call.result.exc = "none"
    /\ call.result.val =
         [call.hout.val EXCEPT !.body = PyStr(json_dumps(call.hout.val.body))]

(* C6: for an async handler declared with (event, context),                *)
(* async_handler(handler)(event, context) ends as the handler's coroutine  *)
(* ends: it returns the coroutine's result, and an error raised inside the *)
(* coroutine is the only error the caller observes.                        *)
C6_AsyncReturnsResult ==
  (call.op = "async_handler" /\ call.nparams = 2) =>
    call.result = call.hout

(* C7: when invocations of one guarded handler run concurrently, at most   *)
(* one invocation per request id delegates to the wrapped handler.         *)
C7_AtMostOneDelegates ==
  \A f \in Decorated, i \in Ids : calls[f][i] <= 1

(* C8: for every return value of H, cors(json_http_resp(H)) returns a      *)
(* response with a statusCode, a string body (the serialized return value  *)
(* when it is serializable, else the 500 response's message) and the       *)
(* Access-Control-Allow-Origin header.                                     *)
C8_StackGivesEnvelope ==
  (call.op = "cors_json_http_resp" /\ call.hout.exc = "none") =>
    /\ call.result.exc = "none"
    /\ "statusCode" \in DOMAIN call.result.val
    /\ isinstance_str(call.result.val.body)
    /\ Serializable(call.hout.val) =>
         call.result.val.body = PyStr(json_dumps(call.hout.val))
    /\ call.result.val.headers[ACAO] = cors_origin(call.arg)

(* the first character of a text after its leading whitespace *)
FirstNonWs(s) == IF SkipWs(s, 1) <= Len(s) THEN s[SkipWs(s, 1)] ELSE ""

(* C9 as stated: an event whose 'body' was a string on entry either does   *)
(* not reach the handler or reaches it with a non-string body.             *)
C9_HandlerNeverSeesString ==
  (/\ call.op = "load_json_body"
   /\ isinstance_str(event_get_body(call.event0))) =>
    \/ call.hcalls = 0
    \/ ~isinstance_str(event_get_body(call.event))

(* C9 amended: an event whose 'body' was a string S on entry either does   *)
(* not reach the handler (S is not JSON) or reaches it with body           *)
(* json.loads(S) and its other keys unchanged; that body is a string       *)
(* exactly when S encodes a JSON string (S starts, after whitespace, with  *)
(* a double quote).  An event whose body is absent or not a string reaches *)
(* the handler unchanged.                                                  *)
C9_HandlerSeesParsedBody ==
  (call.op = "load_json_body") =>
    IF isinstance_str(event_get_body(call.event0))
    THEN \/ call.hcalls = 0 /\ call.event = call.event0
         \/ /\ call.hcalls = 1
            /\ json_loads(call.event0.body.v).ok
            /\ call.event =
                 [call.event0 EXCEPT !.body = json_loads(call.event0.body.v).val]
            /\ isinstance_str(call.event.body)
                 <=> (FirstNonWs(call.event0.body.v) = "\"")
    ELSE call.hcalls = 1 /\ call.event = call.event0

C9_Witness ==
  /\ call.op = "load_json_body"
  /\ event_get_body(call.event0) = PyStr(<<"\"", "a", "\"">>)
  /\ call.hcalls = 1
  /\ call.event.body = PyStr(<<"a">>)

(* the ids of the invocations made so far on decoration f *)
Invoked(f) == {log[k].id : k \in {j \in 1..Len(log) : log[j].f = f}}

(* C10: after any sequence of sequential invocations, the seen set of each *)
(* decorated handler is the set of ids of the invocations made on it (and  *)
(* on it alone), the wrapped handler has been called exactly once per      *)
(* distinct id, and an id whose first invocation ended with the handler    *)
(* raising is rejected on every later invocation.                          *)
C10_SeenIsInvoked ==
  /\ \A f \in Decorated :
       /\ seen_request_ids[f] = Invoked(f)
       /\ \A i \in Ids : calls[f][i] = IF i \in Invoked(f) THEN 1 ELSE 0
  /\ \A k \in 1..Len(log) : \A j \in Earlier(k) :
       (Earlier(j) = {} /\ log[j].result.exc = "HandlerError") =>
         log[k].hcalls = 0 /\ log[k].result = Raise("RuntimeError")

C10_Witness ==
  \E k \in 1..Len(log) : \E j \in Earlier(k) :
    /\ log[j].result.exc = "HandlerError"
    /\ log[k].result.exc = "RuntimeError"
    /\ \E m \in (j + 1)..(k - 1) :
         log[m].f # log[k].f /\ log[m].id = log[k].id /\ log[m].hcalls = 1

====
